---- MODULE Spec2Model ----
(***************************************************************************)
(* A model of the MaTeX compiler engine (src/main.py, class MatexCompiler): *)
(* the line reader, the %...% substitution pass, the directive dispatcher,  *)
(* the recursive FOR/END block structure, the error reporter and the output *)
(* buffer.  Text is modelled by TLA+ strings, on which TLC evaluates Len,   *)
(* SubSeq and \o; Python's 0-based indices and slices are kept.             *)
(*                                                                          *)
(* Not modelled: the command line parser and the __main__ glue, the         *)
(* reader's line-number table (_seps / line()), the info and warning        *)
(* channels, and the `upperlower` builtin.  The embedded expressions are    *)
(* limited to the forms the inputs below use: a name and the literal ''.    *)
(***************************************************************************)
EXTENDS Integers, Sequences, FiniteSets, TLC

VARIABLES
    source,       \* the input stream, one string per physical line
    autocomment,  \* compile's autocomment argument
    pos,          \* _Reader position (tell/seek), counted in lines consumed
    stack,        \* the pending _parse_v1 invocations, innermost last
    output,       \* MatexCompiler._output, one entry per printed line
    errors,       \* what _error has printed to _out_error, in order
    status,       \* where compile is: idle, running, unwinding, returned ...
    dest,         \* the destination finish has written to
    finished,     \* finish has been called
    dispatched    \* history: the lines the dispatch loop has read, in order

vars == <<source, autocomment, pos, stack, output, errors, status, dest,
          finished, dispatched>>

(***************************************************************************)
(* Bounds of the model.                                                     *)
(***************************************************************************)
MaxLines == 4

(***************************************************************************)
(* Python string primitives.                                                *)
(***************************************************************************)
LowerLetters == "abcdefghijklmnopqrstuvwxyz"
UpperLetters == "ABCDEFGHIJKLMNOPQRSTUVWXYZ"
Digits == "0123456789"

\* s[i], 0-based
Ch(s, i) == SubSeq(s, i + 1, i + 1)

\* s.find(c) for a single character c within an alphabet string, or -1
IndexIn(alphabet, c) ==
    IF \E k \in 0..(Len(alphabet) - 1) : Ch(alphabet, k) = c
    THEN CHOOSE k \in 0..(Len(alphabet) - 1) : Ch(alphabet, k) = c
    ELSE -1

\* the upper case of each lower-case letter
UpperOf ==
    [c \in {Ch(LowerLetters, k) : k \in 0..(Len(LowerLetters) - 1)} |->
        Ch(UpperLetters, IndexIn(LowerLetters, c))]

UpperCh(c) == IF c \in DOMAIN UpperOf THEN UpperOf[c] ELSE c

RECURSIVE StrUpper(_)
\* str.upper()
StrUpper(s) ==
    IF Len(s) = 0 THEN ""
    ELSE UpperCh(Ch(s, 0)) \o StrUpper(SubSeq(s, 2, Len(s)))

\* a slice bound as Python normalises it: negative counts from the end
SliceIndex(n, i) ==
    LET k == IF i < 0 THEN i + n ELSE i
    IN  IF k < 0 THEN 0 ELSE IF k > n THEN n ELSE k

\* s[a:b]
PySlice(s, a, b) ==
    LET lo == SliceIndex(Len(s), a)
        hi == SliceIndex(Len(s), b)
    IN  IF lo >= hi THEN "" ELSE SubSeq(s, lo + 1, hi)

\* s[a:]
SliceFrom(s, a) == PySlice(s, a, Len(s))

\* s.find(sub): the first index at which sub occurs, or -1
Find(s, sub) ==
    LET hits == {i \in 0..(Len(s) - Len(sub)) :
                    SubSeq(s, i + 1, i + Len(sub)) = sub}
    IN  IF hits = {} THEN -1
        ELSE CHOOSE i \in hits : \A k \in hits : i <= k

RECURSIVE LStrip(_)
LStrip(s) ==
    IF Len(s) > 0 /\ Ch(s, 0) = " " THEN LStrip(SubSeq(s, 2, Len(s))) ELSE s

RECURSIVE RStrip(_)
RStrip(s) ==
    IF Len(s) > 0 /\ Ch(s, Len(s) - 1) = " "
    THEN RStrip(SubSeq(s, 1, Len(s) - 1)) ELSE s

\* str.strip()
Strip(s) == RStrip(LStrip(s))

RECURSIVE DigitsValue(_, _)
DigitsValue(s, acc) ==
    IF Len(s) = 0 THEN acc
    ELSE DigitsValue(SubSeq(s, 2, Len(s)), 10 * acc + IndexIn(Digits, Ch(s, 0)))

AllDigits(s) ==
    Len(s) > 0 /\ \A i \in 0..(Len(s) - 1) : IndexIn(Digits, Ch(s, i)) >= 0

\* int(s): surrounding blanks and one sign are accepted; ok = FALSE is ValueError
PyInt(s) ==
    LET t    == Strip(s)
        sign == Len(t) > 0 /\ Ch(t, 0) \in {"-", "+"}
        body == IF sign THEN SubSeq(t, 2, Len(t)) ELSE t
    IN  IF AllDigits(body)
        THEN [ok |-> TRUE,
              value |-> IF sign /\ Ch(t, 0) = "-"
                        THEN 0 - DigitsValue(body, 0) ELSE DigitsValue(body, 0)]
        ELSE [ok |-> FALSE, value |-> 0]

RECURSIVE FormatD(_)
\* '%d' % n, for n >= 0
FormatD(n) ==
    IF n < 10 THEN Ch(Digits, n)
    ELSE FormatD(n \div 10) \o Ch(Digits, n % 10)

(***************************************************************************)
(* _Reader.readline: the next line that is neither blank nor a # comment,   *)
(* stripped and split at its first blank into an uppercased head and the    *)
(* tail; eof at the end of the stream.  pos is the position after the read. *)
(***************************************************************************)
RECURSIVE ReadLine(_, _)
ReadLine(src, p) ==
    IF p >= Len(src)
    THEN [eof |-> TRUE, head |-> "", tail |-> "", pos |-> Len(src)]
    ELSE LET line == Strip(src[p + 1])
             sp   == Find(line, " ")
         IN  IF Len(line) = 0 \/ Ch(line, 0) = "#"
             THEN ReadLine(src, p + 1)
             ELSE IF sp < 0
             THEN [eof |-> FALSE, head |-> StrUpper(line), tail |-> "",
                   pos |-> p + 1]
             ELSE [eof |-> FALSE, head |-> StrUpper(PySlice(line, 0, sp)),
                   tail |-> SliceFrom(line, sp + 1), pos |-> p + 1]

(***************************************************************************)
(* Variable environments (kwargs): functions from names to strings.         *)
(***************************************************************************)
EmptyEnv == [v \in {} |-> ""]

\* kwargs[variable] = value
Bind(kwargs, variable, value) ==
    [v \in (DOMAIN kwargs) \cup {variable} |->
        IF v = variable THEN value ELSE kwargs[v]]

InvalidPythonCode == "invalid python code"

(***************************************************************************)
(* _Executor.eval followed by str(): a bound name yields its value, the     *)
(* literal '' the empty string.  Anything else raises inside eval; the bare *)
(* except reports `invalid python code` through _error and returns False,   *)
(* which str() turns into the text False.                                   *)
(***************************************************************************)
ExecutorEval(code, kwargs) ==
    IF code = "''" THEN [text |-> "", errs |-> <<>>]
    ELSE IF code \in DOMAIN kwargs THEN [text |-> kwargs[code], errs |-> <<>>]
    ELSE [text |-> "False", errs |-> <<InvalidPythonCode>>]

(***************************************************************************)
(* variable_replace.  j is the inner loop's variable: -1 while it is still  *)
(* unbound.  `for j in range(i+1, len(string))` leaves j at the closing %,  *)
(* at len-1 when there is none, and untouched when the range is empty.      *)
(* kind: ok | UnmatchedBraces | UnboundLocalError (the read of an unbound   *)
(* j) | loop (i = j + 1 does not advance: the while loop never ends).       *)
(***************************************************************************)
RECURSIVE VariableReplaceFrom(_, _, _, _, _, _)
VariableReplaceFrom(string, kwargs, i, j, result, errs) ==
    IF i >= Len(string) THEN [kind |-> "ok", text |-> result, errs |-> errs]
    ELSE IF Ch(string, i) # "%"
    THEN VariableReplaceFrom(string, kwargs, i + 1, j,
                             result \o Ch(string, i), errs)
    ELSE LET closing == {k \in (i + 1)..(Len(string) - 1) : Ch(string, k) = "%"}
             j2 == IF i + 1 >= Len(string) THEN j
                   ELSE IF closing = {} THEN Len(string) - 1
                   ELSE CHOOSE k \in closing : \A m \in closing : k <= m
             v  == ExecutorEval(PySlice(string, i + 1, j2), kwargs)
         IN  IF j2 = -1
             THEN [kind |-> "UnboundLocalError", text |-> result, errs |-> errs]
             ELSE IF j2 = Len(string)
             THEN [kind |-> "UnmatchedBraces", text |-> result, errs |-> errs]
             ELSE IF j2 + 1 <= i
             THEN [kind |-> "loop", text |-> result, errs |-> errs \o v.errs]
             ELSE VariableReplaceFrom(string, kwargs, j2 + 1, j2,
                                      result \o v.text, errs \o v.errs)

VariableReplace(string, kwargs) ==
    VariableReplaceFrom(string, kwargs, 0, -1, "", <<>>)

(***************************************************************************)
(* The directive branches of _parse_v1.  Each yields ok, the printed lines  *)
(* (out) and the message handed to _error (err).                            *)
(***************************************************************************)
Emit(text) == [ok |-> TRUE, out |-> <<text>>, err |-> ""]
Fail(message) == [ok |-> FALSE, out |-> <<>>, err |-> message]

ErrToBe == "TO BE key words expected"
ErrCmdToBe == "TO BE key words excepted"
ErrCmdDefault == "cannot set default value for a command without parameters"
ErrEnvDefault == "cannot set default value for an environment without parameters"
ErrNotInteger == "parameter length should be an integer"
ErrNegative == "parameter length should be non-negative"
ErrPre == "PRE key word expected"
ErrPost == "POST key word expected"
ErrName == "NAME key word expected"
ErrIn == "IN key word expected"
ErrTag == "unexpected tag"

ParseDEF(tail) ==
    LET mid == Find(StrUpper(tail), " TO BE ")
    IN  IF mid < 0 THEN Fail(ErrToBe)
        ELSE Emit("\\def" \o Strip(PySlice(tail, 0, mid)) \o "{"
                  \o Strip(SliceFrom(tail, mid + 7)) \o "}")

\* length is the int 0 when OF is absent and a string otherwise, so that
\* `length == 0` holds exactly when OF is absent.
ParseCMD(tail) ==
    LET mid1 == Find(StrUpper(tail), " TO BE ")
        mid2 == Find(StrUpper(tail), " OF ")
        mid3 == Find(StrUpper(tail), " DEFAULT ")
        command == Strip(PySlice(tail, 0, mid1))
        definition == IF mid2 >= 0 THEN Strip(PySlice(tail, mid1 + 7, mid2))
                      ELSE Strip(SliceFrom(tail, mid1 + 7))
        length == IF mid2 >= 0 THEN PyInt(Strip(PySlice(tail, mid2 + 4, mid3)))
                  ELSE [ok |-> TRUE, value |-> 0]
        default == SliceFrom(tail, mid3 + 9)
    IN  IF mid1 < 0 THEN Fail(ErrCmdToBe)
        ELSE IF mid3 >= 0 /\ mid2 < 0 THEN Fail(ErrCmdDefault)
        ELSE IF ~length.ok THEN Fail(ErrNotInteger)
        ELSE IF length.value < 0 THEN Fail(ErrNegative)
        ELSE IF mid3 < 0
        THEN Emit("\\newcommand{" \o command \o "}[" \o FormatD(length.value)
                  \o "]{" \o definition \o "}")
        ELSE Emit("\\newcommand{" \o command \o "}[" \o FormatD(length.value)
                  \o "][" \o default \o "]{" \o definition \o "}")

ParsePAC(tail) ==
    LET mid == Find(tail, " OPTION ")
    IN  IF mid < 0 THEN Emit("\\usepackage{" \o Strip(tail) \o "}")
        ELSE Emit("\\usepackage[" \o Strip(SliceFrom(tail, mid + 8)) \o "]{"
                  \o Strip(PySlice(tail, 0, mid)) \o "}")

ParseENV(tail) ==
    LET mid1 == Find(StrUpper(tail), " PRE ")
        mid2 == Find(StrUpper(tail), " POST ")
        mid3 == Find(StrUpper(tail), " OF ")
        mid4 == Find(StrUpper(tail), " DEFAULT ")
        environment == Strip(PySlice(tail, 0, mid1))
        pre == Strip(PySlice(tail, mid1 + 5, mid2))
        post == IF mid3 < 0 THEN Strip(SliceFrom(tail, mid2 + 6))
                ELSE Strip(PySlice(tail, mid2 + 6, mid3))
        length == IF mid3 < 0 THEN [ok |-> TRUE, value |-> 0]
                  ELSE IF mid4 < 0
                  THEN PyInt(Strip(PySlice(tail, mid2 + 6, mid3)))
                  ELSE PyInt(Strip(PySlice(tail, mid3 + 4, mid4)))
        default == Strip(SliceFrom(tail, mid4 + 8))
    IN  IF mid1 < 0 THEN Fail(ErrPre)
        ELSE IF mid2 < 0 THEN Fail(ErrPost)
        ELSE IF mid3 < 0 /\ mid4 >= 0 THEN Fail(ErrEnvDefault)
        ELSE IF ~length.ok THEN Fail(ErrNotInteger)
        ELSE IF length.value < 0 THEN Fail(ErrNegative)
        ELSE IF mid4 < 0
        THEN Emit("\\newenvironment{" \o environment \o "}["
                  \o FormatD(length.value) \o "]{" \o pre \o "}{" \o post \o "}")
        ELSE Emit("\\newenvironment{" \o environment \o "}["
                  \o FormatD(length.value) \o "][" \o default \o "]{" \o pre
                  \o "}{" \o post \o "}")

\* The style line is printed with end set to the empty string, so it shares the next line.
ParseTHM(tail) ==
    LET mid1 == Find(StrUpper(tail), " COUNTER ")
        mid2 == Find(StrUpper(tail), " NAME ")
        mid3 == Find(StrUpper(tail), " UNDER ")
        mid4 == Find(StrUpper(tail), " STYLE ")
        theorem == IF mid1 < 0 THEN Strip(PySlice(tail, 0, mid2))
                   ELSE Strip(PySlice(tail, 0, mid1))
        counter == Strip(PySlice(tail, mid1 + 9, mid2))
        name == IF mid3 >= 0 THEN Strip(PySlice(tail, mid2 + 5, mid3))
                ELSE IF mid4 >= 0 THEN Strip(PySlice(tail, mid2 + 5, mid4))
                ELSE Strip(SliceFrom(tail, mid2 + 5))
        under == IF mid4 < 0 THEN Strip(SliceFrom(tail, mid3 + 6))
                 ELSE Strip(PySlice(tail, mid3 + 6, mid4))
        style == IF mid4 < 0 THEN ""
                 ELSE "\\theoremstyle{" \o Strip(SliceFrom(tail, mid4 + 7)) \o "}"
    IN  IF mid2 < 0 THEN Fail(ErrName)
        ELSE IF mid1 < 0 /\ mid3 < 0
        THEN Emit(style \o "\\newtheorem{" \o theorem \o "}{" \o name \o "}")
        ELSE IF mid1 < 0
        THEN Emit(style \o "\\newtheorem{" \o theorem \o "}{" \o name \o "}["
                  \o under \o "]")
        ELSE IF mid3 < 0
        THEN Emit(style \o "\\newtheorem{" \o theorem \o "}[" \o name \o "]{"
                  \o counter \o "}")
        ELSE Emit(style \o "\\newtheorem{" \o theorem \o "}[" \o name \o "]{"
                  \o counter \o "}[" \o under \o "]")

ParseRAW(tail) == Emit(Strip(tail))

\* print('%', tail)
ParseCOM(tail) == Emit("% " \o tail)

\* the branches of the if/elif chain that neither open nor close a block
Directive(head, tail) ==
    CASE head = "DEF" -> ParseDEF(tail)
      [] head = "CMD" -> ParseCMD(tail)
      [] head = "PAC" -> ParsePAC(tail)
      [] head = "ENV" -> ParseENV(tail)
      [] head = "THM" -> ParseTHM(tail)
      [] head = "RAW" -> ParseRAW(tail)
      [] head = "COM" -> ParseCOM(tail)
      [] OTHER -> Fail(ErrTag)

\* the FOR branch's fields
ParseFOR(tail) ==
    LET mid == Find(StrUpper(tail), " IN ")
    IN  [ok |-> mid >= 0,
         variable |-> Strip(PySlice(tail, 0, mid)),
         values |-> Strip(SliceFrom(tail, mid + 4))]

(***************************************************************************)
(* The inputs.  A block program is any sequence of at most MaxLines lines   *)
(* of BlockLines after the VERSION header; a directive program is one       *)
(* directive line, alone, followed by a RAW line, or in the body of one or  *)
(* of two nested FOR blocks.                                                *)
(***************************************************************************)
Absent == "(absent)"

VersionLine == "VERSION 1"

BlockLines ==
    {"FOR x IN ab", "FOR y IN cd", "FOR x IN %''%", "END", "RAW %x%", "RAW z",
     "BAD"}

BlockPrograms ==
    {<<VersionLine>> \o body :
        body \in UNION {[1..n -> BlockLines] : n \in 0..MaxLines}}

\* a keyword marker, written in lower case (lc) or in upper case
Mk(marker, lc) == IF lc THEN marker ELSE StrUpper(marker)

Opt(marker, field, lc) ==
    IF field = Absent THEN "" ELSE Mk(marker, lc) \o field

DefDirectives ==
    [kind : {"DEF"}, macro : {"\\m"}, body : {"b"}, lc : BOOLEAN]

CmdDirectives ==
    [kind : {"CMD"}, name : {"\\f"}, body : {"b"},
     of : {Absent, "0", "2", "12", "1x", "-1"}, default : {Absent, "W"},
     lc : BOOLEAN]

PacDirectives ==
    [kind : {"PAC"}, package : {"pk"}, option : {Absent, "op"}, lc : BOOLEAN]

EnvDirectives ==
    [kind : {"ENV"}, name : {"e"}, pre : {"p"}, post : {"q", "3"},
     of : {Absent, "0", "2"}, default : {Absent, "W"}, lc : BOOLEAN]

ThmDirectives ==
    [kind : {"THM"}, name : {"lem"}, counter : {Absent, "thm"},
     title : {"Lemma"}, under : {Absent, "section"},
     style : {Absent, "plain"}, lc : BOOLEAN]

ForDirectives ==
    [kind : {"FOR"}, variable : {"x"}, literal : {"ab"}, lc : BOOLEAN]

Directives ==
    DefDirectives \cup CmdDirectives \cup PacDirectives \cup EnvDirectives
        \cup ThmDirectives \cup ForDirectives

\* the source line that writes directive d
Render(d) ==
    CASE d.kind = "DEF" ->
            "DEF " \o d.macro \o Mk(" to be ", d.lc) \o d.body
      [] d.kind = "CMD" ->
            "CMD " \o d.name \o Mk(" to be ", d.lc) \o d.body
                \o Opt(" of ", d.of, d.lc) \o Opt(" default ", d.default, d.lc)
      [] d.kind = "PAC" ->
            "PAC " \o d.package \o Opt(" option ", d.option, d.lc)
      [] d.kind = "ENV" ->
            "ENV " \o d.name \o Mk(" pre ", d.lc) \o d.pre
                \o Mk(" post ", d.lc) \o d.post
                \o Opt(" of ", d.of, d.lc) \o Opt(" default ", d.default, d.lc)
      [] d.kind = "THM" ->
            "THM " \o d.name \o Opt(" counter ", d.counter, d.lc)
                \o Mk(" name ", d.lc) \o d.title
                \o Opt(" under ", d.under, d.lc) \o Opt(" style ", d.style, d.lc)
      [] d.kind = "FOR" ->
            "FOR " \o d.variable \o Mk(" in ", d.lc) \o d.literal

\* lines whose tail has an unclosed % or an expression that does not evaluate
PercentLines ==
    {"RAW a%bc", "RAW a%", "RAW %y%", "RAW %y%%", "COM %''%%z"}

OtherLines ==
    {"DEF \\m b", "CMD q", "ENV e PRE p", "ENV e POST q", "THM lem", "FOR x",
     "COM hi", "# RAW c", "", "  raw  z "}

DirectiveLines ==
    {Render(d) : d \in Directives} \cup PercentLines \cup OtherLines

FollowLine == "RAW z"

\* the program holding directive line l, alone or with a line after it
ProgramOf(l) == <<VersionLine, l>>
ProgramWithFollow(l) == <<VersionLine, l, FollowLine>>

ProgramInFor(l) == <<VersionLine, "FOR x IN ab", l, "END", FollowLine>>
ProgramInNestedFor(l) ==
    <<VersionLine, "FOR x IN ab", "FOR y IN cd", "RAW %x%", l, "END", "END",
      FollowLine>>

DirectivePrograms ==
    {ProgramOf(l) : l \in DirectiveLines}
        \cup {ProgramWithFollow(l) : l \in DirectiveLines}
        \cup {ProgramInFor(l) : l \in DirectiveLines}
        \cup {ProgramInNestedFor(l) : l \in DirectiveLines}

HeaderPrograms ==
    {<< >>, <<"RAW z", VersionLine>>, <<"VERSION x">>, <<"VERSION 2">>,
     <<"", "# c", "version 1", "RAW z">>}

Programs == BlockPrograms \cup DirectivePrograms \cup HeaderPrograms

(***************************************************************************)
(* The compiler as a state machine.                                         *)
(***************************************************************************)
AutoCommentLines ==
    <<"% This file is automatically generated by MaTeX version 1.3.0. Do not edit it manually.",
      "">>

\* a fresh _parse_v1 invocation, at the head of its `for head, tail` loop
NewFrame(kwargs) ==
    [kwargs |-> kwargs, pc |-> "loop", variable |-> "", values |-> "",
     idx |-> 0, loop_start |-> 0]

Top == stack[Len(stack)]
SetTop(frame) == [stack EXCEPT ![Len(stack)] = frame]
Front(s) == SubSeq(s, 1, Len(s) - 1)

Init ==
    /\ source \in Programs
    /\ autocomment \in BOOLEAN
    /\ pos = 0
    /\ stack = << >>
    /\ output = << >>
    /\ errors = << >>
    /\ status = "idle"
    /\ dest = << >>
    /\ finished = FALSE
    /\ dispatched = << >>

\* compile: the VERSION header, then _parse_v1(autocomment)
Compile ==
    /\ status = "idle"
    /\ LET ln == ReadLine(source, pos)
           version == PyInt(ln.tail)
           message ==
               IF ln.eof THEN "version not specified"
               ELSE IF ln.head # "VERSION"
               THEN "version not specified at the head of file"
               ELSE IF ~version.ok THEN "version should be an integer"
               ELSE IF version.value # 1 THEN "unknown version"
               ELSE ""
       IN  /\ pos' = ln.pos
           /\ IF message = ""
              THEN /\ stack' = <<NewFrame(EmptyEnv)>>
                   /\ output' = IF autocomment THEN output \o AutoCommentLines
                                ELSE output
                   /\ errors' = errors
                   /\ status' = "running"
              ELSE /\ stack' = stack
                   /\ output' = output
                   /\ errors' = Append(errors, message)
                   /\ status' = "returned_false"
    /\ UNCHANGED <<source, autocomment, dest, finished, dispatched>>

AtLoop == status = "running" /\ Len(stack) > 0 /\ Top.pc = "loop"
Line == ReadLine(source, pos)
Replaced == VariableReplace(Line.tail, Top.kwargs)

\* `return True` of the innermost invocation
ReturnTrue ==
    /\ stack' = Front(stack)
    /\ status' = IF Len(stack) = 1 THEN "returned_true" ELSE "running"

\* `return self._error(...)` of the innermost invocation
ReturnError(messages) ==
    /\ errors' = errors \o messages
    /\ stack' = Front(stack)
    /\ status' = IF Len(stack) = 1 THEN "returned_false" ELSE "unwinding"

LogDispatch ==
    dispatched' = Append(dispatched,
        [line |-> Line.pos, depth |-> Len(stack), kwargs |-> Top.kwargs,
         before |-> Len(output)])

\* the reader raises StopIteration: the loop ends and _parse_v1 returns True
EndOfStream ==
    /\ AtLoop
    /\ Line.eof
    /\ pos' = Line.pos
    /\ ReturnTrue
    /\ UNCHANGED <<source, autocomment, output, errors, dest, finished,
                   dispatched>>

\* variable_replace does not return a string
ReplaceAbort ==
    /\ AtLoop
    /\ ~Line.eof
    /\ Replaced.kind # "ok"
    /\ pos' = Line.pos
    /\ LogDispatch
    /\ CASE Replaced.kind = "UnmatchedBraces" ->
                ReturnError(Replaced.errs \o <<"unmatched %">>)
         [] Replaced.kind = "UnboundLocalError" ->
                /\ errors' = errors \o Replaced.errs
                /\ stack' = << >>
                /\ status' = "raised"
         [] OTHER ->
                /\ errors' = errors \o Replaced.errs
                /\ stack' = stack
                /\ status' = "hung"
    /\ UNCHANGED <<source, autocomment, output, dest, finished>>

\* DEF, CMD, PAC, ENV, THM, RAW, COM and the final else
DispatchDirective ==
    /\ AtLoop
    /\ ~Line.eof
    /\ Replaced.kind = "ok"
    /\ Line.head \notin {"FOR", "END"}
    /\ pos' = Line.pos
    /\ LogDispatch
    /\ LET d == Directive(Line.head, Replaced.text)
       IN  IF d.ok
           THEN /\ output' = output \o d.out
                /\ errors' = errors \o Replaced.errs
                /\ UNCHANGED <<stack, status>>
           ELSE /\ output' = output
                /\ ReturnError(Replaced.errs \o <<d.err>>)
    /\ UNCHANGED <<source, autocomment, dest, finished>>

\* the FOR branch up to its `for value in values`
DispatchFor ==
    /\ AtLoop
    /\ ~Line.eof
    /\ Replaced.kind = "ok"
    /\ Line.head = "FOR"
    /\ pos' = Line.pos
    /\ LogDispatch
    /\ LET f == ParseFOR(Replaced.text)
       IN  IF f.ok
           THEN /\ stack' = SetTop([Top EXCEPT !.pc = "for",
                                               !.variable = f.variable,
                                               !.values = f.values,
                                               !.idx = 0,
                                               !.loop_start = Line.pos])
                /\ errors' = errors \o Replaced.errs
                /\ UNCHANGED status
           ELSE ReturnError(Replaced.errs \o <<ErrIn>>)
    /\ UNCHANGED <<source, autocomment, output, dest, finished>>

\* the END branch
DispatchEnd ==
    /\ AtLoop
    /\ ~Line.eof
    /\ Replaced.kind = "ok"
    /\ Line.head = "END"
    /\ pos' = Line.pos
    /\ LogDispatch
    /\ errors' = errors \o Replaced.errs
    /\ ReturnTrue
    /\ UNCHANGED <<source, autocomment, output, dest, finished>>

AtFor == status = "running" /\ Len(stack) > 0 /\ Top.pc = "for"

\* one turn of `for value in values`: seek, bind, call _parse_v1(**kwargs)
ForNext ==
    /\ AtFor
    /\ Top.idx < Len(Top.values)
    /\ LET kwargs == Bind(Top.kwargs, Top.variable, Ch(Top.values, Top.idx))
       IN  stack' = Append(SetTop([Top EXCEPT !.kwargs = kwargs,
                                              !.idx = Top.idx + 1]),
                           NewFrame(kwargs))
    /\ pos' = Top.loop_start
    /\ UNCHANGED <<source, autocomment, output, errors, status, dest, finished,
                   dispatched>>

\* `for value in values` is exhausted: back to the dispatch loop
ForDone ==
    /\ AtFor
    /\ Top.idx = Len(Top.values)
    /\ stack' = SetTop([Top EXCEPT !.pc = "loop"])
    /\ UNCHANGED <<source, autocomment, pos, output, errors, status, dest,
                   finished, dispatched>>

\* a caller that ignores the callee's False and goes on with its loop
UnwindIgnored ==
    /\ status = "unwinding"
    /\ status' = "running"
    /\ UNCHANGED <<source, autocomment, pos, stack, output, errors, dest,
                   finished, dispatched>>

\* `if not self._parse_v1(**kwargs): return False` in the caller
Unwind ==
    /\ status = "unwinding"
    /\ stack' = Front(stack)
    /\ status' = IF Len(stack) = 1 THEN "returned_false" ELSE "unwinding"
    /\ UNCHANGED <<source, autocomment, pos, output, errors, dest, finished,
                   dispatched>>

\* finish(output), once compile has returned
Finish ==
    /\ status \in {"returned_true", "returned_false"}
    /\ ~finished
    /\ dest' = dest \o output
    /\ output' = << >>
    /\ finished' = TRUE
    /\ UNCHANGED <<source, autocomment, pos, stack, errors, status, dispatched>>

Next ==
    \/ Compile
    \/ EndOfStream
    \/ ReplaceAbort
    \/ DispatchDirective
    \/ DispatchFor
    \/ DispatchEnd
    \/ ForNext
    \/ ForDone
    \/ Unwind
    \/ Finish

Spec == Init /\ [][Next]_vars

(***************************************************************************)
(* What the claims speak of.                                                *)
(***************************************************************************)
Returned == status \in {"returned_true", "returned_false"}

\* compile has returned and the buffer still holds what it left there; the
\* runs without the auto-comment header, whose buffer holds fragments only
Settled == Returned /\ ~finished /\ ~autocomment

LastError == IF errors = << >> THEN "" ELSE errors[Len(errors)]

GrammarErrors ==
    {ErrToBe, ErrCmdToBe, ErrCmdDefault, ErrEnvDefault, ErrNotInteger, ErrNegative, ErrPre,
     ErrPost, ErrName, ErrIn, ErrTag}

\* head and tail of source line i (empty for a blank or comment line)
HeadAt(i) == ReadLine(<<source[i]>>, 0).head
TailAt(i) == ReadLine(<<source[i]>>, 0).tail

IsFor(i) == i \in 1..Len(source) /\ HeadAt(i) = "FOR"

\* the line compile reads as the VERSION header
HeaderLine == ReadLine(source, 0).pos

RECURSIVE MatchingEnd(_, _)
\* the END that closes a block, scanning from line i with `open` inner blocks
\* open; 0 when the stream ends first
MatchingEnd(i, open) ==
    IF i > Len(source) THEN 0
    ELSE IF HeadAt(i) = "FOR" THEN MatchingEnd(i + 1, open + 1)
    ELSE IF HeadAt(i) = "END"
    THEN IF open = 0 THEN i ELSE MatchingEnd(i + 1, open - 1)
    ELSE MatchingEnd(i + 1, open)

EndOf(f) == MatchingEnd(f + 1, 0)

\* every FOR has its END and every END its FOR
WellNested ==
    /\ \A f \in 1..Len(source) : IsFor(f) => EndOf(f) # 0
    /\ \A e \in 1..Len(source) :
          HeadAt(e) = "END" => \E f \in 1..Len(source) : IsFor(f) /\ EndOf(f) = e

\* the blocks line i lies in, and the innermost of them
Enclosing(i) == {f \in 1..Len(source) : IsFor(f) /\ f < i /\ i < EndOf(f)}
Innermost(i) == CHOOSE f \in Enclosing(i) : \A g \in Enclosing(i) : g <= f

\* the loop variable and the literal of the FOR at line f (the literals of
\* the inputs do not depend on the environment)
ForFields(f) == ParseFOR(VariableReplace(TailAt(f), EmptyEnv).text)

RECURSIVE Product(_)
Product(fs) ==
    IF fs = {} THEN 1
    ELSE LET f == CHOOSE g \in fs : TRUE
         IN  Len(ForFields(f).values) * Product(fs \ {f})

\* the dispatches of source line i, in order
DispatchesOf(i) == SelectSeq(dispatched, LAMBDA e : e.line = i)

RECURSIVE ScanFails(_, _)
\* the tail has a % that no later % closes, or a %...% region whose
\* expression does not evaluate in kwargs
ScanFails(tail, kwargs) ==
    LET open == Find(tail, "%")
        rest == SliceFrom(tail, open + 1)
        close == Find(rest, "%")
        code == PySlice(rest, 0, close)
    IN  IF open < 0 THEN FALSE
        ELSE IF close < 0 THEN TRUE
        ELSE IF code # "''" /\ code \notin DOMAIN kwargs THEN TRUE
        ELSE ScanFails(SliceFrom(rest, close + 1), kwargs)

(***************************************************************************)
(* C1.  compile never returns success once it has dispatched a FOR that no  *)
(* END of its own closes before the end of the stream.  (Stated for the     *)
(* blocks with a literal that is not empty.)                                *)
(***************************************************************************)
C1_MissingEndFails ==
    status = "returned_true" =>
        \A k \in 1..Len(dispatched) :
            (/\ IsFor(dispatched[k].line)
             /\ ForFields(dispatched[k].line).values # "") =>
                EndOf(dispatched[k].line) # 0

(***************************************************************************)
(* C2.  After compile has returned failure the output buffer holds no       *)
(* fragment, and a finish that follows writes nothing to the destination.   *)
(* (Stated for the runs whose only reported error is the fatal one.)        *)
(***************************************************************************)
C2_FailureLeavesNoOutput ==
    (status = "returned_false" /\ ~autocomment /\ Len(errors) = 1) =>
        IF finished THEN dest = << >> ELSE output = << >>

(***************************************************************************)
(* C3.  Once a well-nested source has compiled, every line has been         *)
(* dispatched as many times as the literals of the blocks around it         *)
(* multiply to (once outside every block, not at all inside a block with    *)
(* an empty literal), and the j-th dispatch of a line within one run of its *)
(* innermost block saw the loop variable bound to the j-th character.       *)
(* (Stated for the runs that report no error.)                              *)
(***************************************************************************)
C3_BodyRunsOncePerCharacter ==
    (status = "returned_true" /\ WellNested /\ errors = << >>) =>
        \A i \in (HeaderLine + 1)..Len(source) :
            HeadAt(i) \notin {"", "END"} =>
                /\ Len(DispatchesOf(i)) = Product(Enclosing(i))
                /\ Enclosing(i) # {} =>
                      LET f == ForFields(Innermost(i))
                          d == DispatchesOf(i)
                      IN  \A j \in 1..Len(d) :
                            /\ f.variable \in DOMAIN d[j].kwargs
                            /\ d[j].kwargs[f.variable] =
                                  Ch(f.values, (j - 1) % Len(f.values))

(***************************************************************************)
(* C4.  Once a line whose tail has an unclosed % or a failing expression    *)
(* has been dispatched, an error is reported, the compile is failing or has *)
(* failed, no later line is dispatched and the buffer has not grown since   *)
(* that line was read.                                                      *)
(***************************************************************************)
C4_BadSubstitutionFails ==
    \A k \in 1..Len(dispatched) :
        ScanFails(TailAt(dispatched[k].line), dispatched[k].kwargs) =>
            /\ status \in {"unwinding", "returned_false"}
            /\ errors # << >>
            /\ k = Len(dispatched)
            /\ ~finished => Len(output) = dispatched[k].before

(***************************************************************************)
(* C5.  Once a directive-grammar error has been reported, the compile is    *)
(* unwinding or has returned failure, and every further step only returns   *)
(* from one more pending invocation: no line is read or dispatched, no      *)
(* iteration starts, no error and no fragment is added.                     *)
(***************************************************************************)
GrammarFailure == LastError \in GrammarErrors

C5_GrammarErrorUnwinds ==
    [][/\ GrammarFailure' =>
            /\ status' \in {"unwinding", "returned_false"}
            /\ (status' = "returned_false") <=> (stack' = << >>)
       /\ GrammarFailure =>
            /\ pos' = pos
            /\ dispatched' = dispatched
            /\ errors' = errors
            /\ output' = output \/ (finished' /\ ~finished /\ output' = << >>)
            /\ stack' = stack \/ stack' = Front(stack)]_vars

\* a grammar error two blocks deep, after a fragment was emitted, with turns
\* of the enclosing loops still to come
C5_Witness ==
    /\ GrammarFailure
    /\ status = "unwinding"
    /\ Len(stack) >= 2
    /\ ~autocomment
    /\ output # << >>
    /\ \A k \in 1..Len(stack) : stack[k].idx < Len(stack[k].values)

(***************************************************************************)
(* C6.  CMD ... OF n and ENV ... OF n without DEFAULT, n a non-negative     *)
(* integer, compile to \newcommand{name}[n]{body} and                       *)
(* \newenvironment{name}[n]{pre}{post}.                                     *)
(***************************************************************************)
C6_ParameterCountEmitted ==
    /\ \A d \in CmdDirectives :
          (/\ d.of \in {"0", "2", "12"}
           /\ d.default = Absent
           /\ source = ProgramOf(Render(d))
           /\ Settled) =>
              /\ status = "returned_true"
              /\ output = <<"\\newcommand{" \o d.name \o "}[" \o d.of \o "]{"
                            \o d.body \o "}">>
    /\ \A d \in EnvDirectives :
          (/\ d.of \in {"0", "2"}
           /\ d.default = Absent
           /\ source = ProgramOf(Render(d))
           /\ Settled) =>
              /\ status = "returned_true"
              /\ output = <<"\\newenvironment{" \o d.name \o "}[" \o d.of
                            \o "]{" \o d.pre \o "}{" \o d.post \o "}">>

(***************************************************************************)
(* C7.  THM name COUNTER c NAME title [UNDER parent] compiles to            *)
(* \newtheorem{name}[c]{title}, followed by [parent] when UNDER is there.   *)
(***************************************************************************)
C7_CounterInBrackets ==
    \A d \in ThmDirectives :
        (/\ d.counter # Absent
         /\ d.style = Absent
         /\ source = ProgramOf(Render(d))
         /\ Settled) =>
            /\ status = "returned_true"
            /\ output = <<"\\newtheorem{" \o d.name \o "}[" \o d.counter \o "]{"
                          \o d.title \o "}"
                          \o (IF d.under = Absent THEN ""
                              ELSE "[" \o d.under \o "]")>>

(***************************************************************************)
(* C8.  A CMD or ENV with a DEFAULT field and a parameter count of zero,    *)
(* OF absent or OF 0, fails with the default-without-parameters error and   *)
(* emits nothing.                                                           *)
(***************************************************************************)
C8_DefaultNeedsParameters ==
    \A d \in CmdDirectives \cup EnvDirectives :
        (/\ d.default # Absent
         /\ d.of \in {Absent, "0"}
         /\ source = ProgramOf(Render(d))
         /\ Settled) =>
            /\ status = "returned_false"
            /\ LastError \in {ErrCmdDefault, ErrEnvDefault}
            /\ output = << >>

(***************************************************************************)
(* C9.  A line dispatched at the outermost level is resolved with the empty *)
(* environment, whatever blocks ran before it, and an invocation at the     *)
(* head of its dispatch loop holds the environment it was called with: the  *)
(* one its caller holds.                                                    *)
(***************************************************************************)
C9_BlockLeavesEnvironment ==
    /\ \A k \in 1..Len(dispatched) :
          dispatched[k].depth = 1 => dispatched[k].kwargs = EmptyEnv
    /\ \A k \in 2..Len(stack) :
          stack[k].pc = "loop" => stack[k].kwargs = stack[k - 1].kwargs

(***************************************************************************)
(* C10.  A directive whose markers are written in lower case compiles as    *)
(* the same directive with its markers in upper case does: the same result, *)
(* and the same fragment or the same block fields.                          *)
(***************************************************************************)
UpperCased(d) == ReadLine(<<Render([d EXCEPT !.lc = FALSE])>>, 0)

C10_MarkersIgnoreCase ==
    \A d \in Directives :
        (d.lc /\ source = ProgramOf(Render(d)) /\ Settled) =>
            IF d.kind = "FOR"
            THEN \A k \in 1..Len(dispatched) :
                    ParseFOR(TailAt(dispatched[k].line))
                        = ParseFOR(UpperCased(d).tail)
            ELSE LET u == Directive(UpperCased(d).head, UpperCased(d).tail)
                 IN  /\ (status = "returned_true") <=> u.ok
                     /\ output = u.out

====
